---- MODULE Spec2Model ----
(***************************************************************************)
(* A model of the trait-union crate.                                       *)
(*                                                                         *)
(*  - Spec:       the run-time behaviour of the type generated for         *)
(*                `union U: F = u8 | String | X` (src/src/lib.rs, mod      *)
(*                test): new, to_trait_object, Deref, DerefMut and Drop.   *)
(*  - LayoutSpec: the layout of the generated struct / union / handle.     *)
(*  - ExpandSpec: handle_request on one request, followed by the type      *)
(*                check of the items it emitted.                           *)
(*  - BatchSpec:  the proc macro trait_union on a batch of requests.       *)
(***************************************************************************)
EXTENDS Integers, Sequences, FiniteSets, TLC

VARIABLES
    c,             \* the variable `c` of the caller: a container, or moved-out
    tmp,           \* the temporary holding the right-hand side of `c = U::new(..)`
    heap,          \* heap allocations owned by String values
    X_DROP_COUNT,  \* static X_DROP_COUNT: AtomicUsize
    pc,            \* position of the caller inside an assignment statement
    cVal,          \* history: the typed value that was moved into c
    tmpVal,        \* history: the typed value that was moved into tmp
    refCount,      \* history: X_DROP_COUNT as the concrete impls, called directly, leave it
    drops,         \* history: destructor invocations per constructed value
    nextId,        \* history: number of values constructed so far, plus one
    replaced,      \* history: the value that the last assignment replaced
    misuse,        \* history: a trait object was used on storage it does not describe
    usedAfterDrop, \* history: a value was accessed after its destructor ran
    \* LayoutSpec
    lvariants,     \* the layouts [size, align] of the variant types of a request
    layout,        \* the layout of the container generated for them
    \* ExpandSpec
    request,       \* a parsed TraitUnionRequest: [trait_, variants]
    phase,         \* "parsed", "emitted" (handle_request returned), "checked"
    out,           \* the items handle_request emitted
    built,         \* the result of type checking the emitted items
    manual,        \* types for which user code wrote `unsafe impl ...Variant`
    constructed,   \* the type of the last value passed to `new`
    \* BatchSpec
    batch,         \* the declarations in the macro input
    res,           \* TraitUnionRequests::parse: the requests parsed so far
    tokens,        \* trait_union: the token stream built so far
    pos,           \* TraitUnionRequests::parse: declarations consumed from the input
    bpc,           \* position inside trait_union
    checked        \* per declaration, the result of type checking the returned tokens

rtVars == <<c, tmp, heap, X_DROP_COUNT, pc, cVal, tmpVal, refCount, drops, nextId,
            replaced, misuse, usedAfterDrop>>

layoutVars == <<lvariants, layout>>
expandVars == <<request, phase, out, built, manual, constructed>>
batchVars == <<batch, res, tokens, pos, bpc, checked>>

vars == <<rtVars, layoutVars, expandVars, batchVars>>

----------------------------------------------------------------------------
(* Bounds of the model. *)

MaxValues == 3      \* values constructed in one behaviour
MaxU8 == 2          \* u8 inputs are 0..MaxU8
MaxStrLen == 2      \* String inputs have at most this many characters
MaxLenArg == 2      \* set_len arguments are 0..MaxLenArg, and U8Mod + 1
UsizeBits == 16     \* width of usize in the model

U8Mod == 256
UsizeMax == 2^UsizeBits - 1

Chars == {1, 2}
Strings == UNION {[1..n -> Chars] : n \in 0..MaxStrLen}
LenArgs == (0..MaxLenArg) \cup {U8Mod + 1}

Nil == [st |-> "none"]

----------------------------------------------------------------------------
(* The implementations of F and Drop for the three variants. A world is the *)
(* memory outside the container: w = [heap, xdc].                           *)

Uninit == 0 - 1

\* A read of word i of the storage; a word that was never written is junk.
Word(data, i) == IF i \in 1..Len(data) THEN data[i] ELSE Uninit

Buf(w, p) == IF p \in DOMAIN w.heap /\ w.heap[p].st = "live" THEN w.heap[p].buf ELSE <<>>

Min(a, b) == IF a <= b THEN a ELSE b

impl_len(ty, data, w) ==
    CASE ty = "u8" -> Word(data, 1)
      [] ty = "String" -> Word(data, 2)
      [] OTHER -> UsizeMax

\* The storage and the world after set_len(len).
impl_set_len(ty, data, w, n) ==
    CASE ty = "u8" -> [data |-> <<n % U8Mod>>, w |-> w]
      [] ty = "String" ->
            [data |-> IF n <= Word(data, 2) THEN <<Word(data, 1), n>> ELSE data,
             w |-> w]
      [] OTHER -> [data |-> data, w |-> [w EXCEPT !.xdc = n]]

\* The world after the destructor of the type ran on the storage.
impl_drop(ty, data, w) ==
    CASE ty = "u8" -> w
      [] ty = "String" ->
            IF Word(data, 1) \in DOMAIN w.heap
            THEN [w EXCEPT !.heap[Word(data, 1)] = [st |-> "freed", buf |-> <<>>]]
            ELSE w
      [] OTHER -> [w EXCEPT !.xdc = (w.xdc + 1) % (UsizeMax + 1)]

\* The value the storage holds when read as the type.
Decode(ty, data, w) ==
    CASE ty = "u8" -> <<Word(data, 1)>>
      [] ty = "String" -> SubSeq(Buf(w, Word(data, 1)), 1, Min(Word(data, 2), Len(Buf(w, Word(data, 1)))))
      [] OTHER -> <<>>

\* The same operations on the typed value, without a container.
Direct_len(v) ==
    CASE v.ty = "u8" -> v.val[1]
      [] v.ty = "String" -> Len(v.val)
      [] OTHER -> UsizeMax

Direct_set_len(v, n) ==
    CASE v.ty = "u8" -> <<n % U8Mod>>
      [] v.ty = "String" -> IF n <= Len(v.val) THEN SubSeq(v.val, 1, n) ELSE v.val
      [] OTHER -> v.val

----------------------------------------------------------------------------
(* The generated code. *)

\* The vtables of `dyn F` in the binary. The compiler may emit the vtable of
\* one type more than once; address 0 is never a vtable.
VtableType(a) ==
    CASE a = 1 -> "u8"
      [] a = 2 -> "String"
      [] a = 3 -> "X"
      [] a = 4 -> "u8"
      [] OTHER -> "invalid"

VtableAddrs(ty) == {a \in 1..4 : VtableType(a) = ty}

\* `&value as &dyn F`: the fat pointers the coercion may produce.
Unsize(value) == {<<"value", a>> : a \in VtableAddrs(value.ty)}

\* transmute of a fat pointer to the repr(C) struct TraitObject.
transmute(fat) == [data |-> fat[1], vtable |-> fat[2]]

new_WrongVtable(value, fat) ==
    [st |-> "live", data |-> value.bytes, vtable |-> 1]

\* U::new(value), `fat` being the coercion of &value.
new(value, fat) ==
    [st |-> "live", data |-> value.bytes, vtable |-> transmute(fat).vtable]

Container(loc) == IF loc = "c" THEN c ELSE tmp
Value(loc) == IF loc = "c" THEN cVal ELSE tmpVal

to_trait_object_FixedVtable(loc) == [data |-> loc, vtable |-> 1]

to_trait_object(loc) == [data |-> loc, vtable |-> Container(loc).vtable]

deref(loc) == to_trait_object(loc)

deref_mut(loc) == to_trait_object(loc)

drop_Nothing(loc) == <<>>

drop_Twice(loc) == <<to_trait_object(loc), to_trait_object(loc)>>

\* Drop::drop(&mut self): the trait objects drop_in_place is called on.
drop(loc) == <<to_trait_object(loc)>>

\* A call through a trait object is sound when the storage it points to holds
\* a value of the type its vtable belongs to.
ValidCall(t) ==
    /\ Container(t.data).st = "live"
    /\ VtableType(t.vtable) = Value(t.data).ty

World == [heap |-> heap, xdc |-> X_DROP_COUNT]

RECURSIVE RunDrops(_, _)
RunDrops(ts, w) ==
    IF ts = <<>> THEN w
    ELSE RunDrops(Tail(ts), impl_drop(VtableType(Head(ts).vtable), Container(Head(ts).data).data, w))

----------------------------------------------------------------------------
(* The caller. *)

\* The values a caller can build: [ty, bytes, val], and the heap it allocates.
U8Values == {[ty |-> "u8", bytes |-> <<n>>, val |-> <<n>>] : n \in 0..MaxU8}
StringValues == {[ty |-> "String", bytes |-> <<nextId, Len(s)>>, val |-> s] : s \in Strings}
XValues == {[ty |-> "X", bytes |-> <<>>, val |-> <<>>]}
Values == U8Values \cup StringValues \cup XValues

Alloc(value) ==
    IF value.ty = "String"
    THEN [heap EXCEPT ![nextId] = [st |-> "live", buf |-> value.val]]
    ELSE heap

Ghost(value, fat) ==
    [st |-> "live", ty |-> value.ty, val |-> value.val, id |-> nextId, vt |-> fat[2]]

LayoutIdle ==
    /\ lvariants = <<>>
    /\ layout = Nil

ExpandIdle ==
    /\ request = Nil
    /\ phase = "none"
    /\ out = Nil
    /\ built = Nil
    /\ manual = {}
    /\ constructed = "none"

BatchIdle ==
    /\ batch = <<>>
    /\ res = <<>>
    /\ tokens = <<>>
    /\ pos = 0
    /\ bpc = "none"
    /\ checked = <<>>

RtIdle ==
    /\ c = Nil
    /\ tmp = Nil
    /\ heap = <<>>
    /\ X_DROP_COUNT = 0
    /\ pc = "none"
    /\ cVal = Nil
    /\ tmpVal = Nil
    /\ refCount = 0
    /\ drops = <<>>
    /\ nextId = 1
    /\ replaced = 0
    /\ misuse = FALSE
    /\ usedAfterDrop = FALSE

Init ==
    /\ LayoutIdle /\ ExpandIdle /\ BatchIdle
    /\ c = Nil
    /\ tmp = Nil
    /\ heap = [p \in 1..MaxValues |-> [st |-> "unalloc", buf |-> <<>>]]
    /\ X_DROP_COUNT = 0
    /\ pc = "idle"
    /\ cVal = Nil
    /\ tmpVal = Nil
    /\ refCount = 0
    /\ drops = [i \in 1..MaxValues |-> 0]
    /\ nextId = 1
    /\ replaced = 0
    /\ misuse = FALSE
    /\ usedAfterDrop = FALSE

\* let mut c = U::new(value);
Let ==
    /\ UNCHANGED <<layoutVars, expandVars, batchVars>>
    /\ pc = "idle"
    /\ c.st = "none"
    /\ nextId <= MaxValues
    /\ \E value \in Values : \E fat \in Unsize(value) :
          /\ c' = new(value, fat)
          /\ cVal' = Ghost(value, fat)
          /\ heap' = Alloc(value)
    /\ nextId' = nextId + 1
    /\ UNCHANGED <<tmp, X_DROP_COUNT, pc, tmpVal, refCount, drops, replaced, misuse,
                   usedAfterDrop>>

\* c.len()
CallLen ==
    /\ UNCHANGED <<layoutVars, expandVars, batchVars>>
    /\ pc = "idle"
    /\ c.st = "live"
    /\ misuse' = (misuse \/ ~ValidCall(deref("c")))
    /\ usedAfterDrop' = (usedAfterDrop \/ drops[cVal.id] > 0)
    /\ UNCHANGED <<c, tmp, heap, X_DROP_COUNT, pc, cVal, tmpVal, refCount, drops, nextId,
                   replaced>>

\* c.set_len(n)
CallSetLen ==
    /\ UNCHANGED <<layoutVars, expandVars, batchVars>>
    /\ pc = "idle"
    /\ c.st = "live"
    /\ \E n \in LenArgs :
          LET t == deref_mut("c")
              r == impl_set_len(VtableType(t.vtable), Container(t.data).data, World, n)
          IN /\ c' = [c EXCEPT !.data = r.data]
             /\ heap' = r.w.heap
             /\ X_DROP_COUNT' = r.w.xdc
             /\ cVal' = [cVal EXCEPT !.val = Direct_set_len(cVal, n)]
             /\ refCount' = IF cVal.ty = "X" THEN n ELSE refCount
             /\ misuse' = (misuse \/ ~ValidCall(t))
             /\ usedAfterDrop' = (usedAfterDrop \/ drops[cVal.id] > 0)
    /\ UNCHANGED <<tmp, pc, tmpVal, drops, nextId, replaced>>

\* The effects of running Drop::drop on the container at loc.
Destroy(loc) ==
    LET ts == drop(loc)
        w == RunDrops(ts, World)
    IN /\ heap' = w.heap
       /\ X_DROP_COUNT' = w.xdc
       /\ drops' = [drops EXCEPT ![Value(loc).id] = @ + Len(ts)]
       /\ refCount' = IF Value(loc).ty = "X" THEN refCount + 1 ELSE refCount
       /\ misuse' = (misuse \/ \E i \in 1..Len(ts) : ~ValidCall(ts[i]))

\* drop(c), or c going out of scope
DropC ==
    /\ UNCHANGED <<layoutVars, expandVars, batchVars>>
    /\ pc = "idle"
    /\ c.st = "live"
    /\ Destroy("c")
    /\ c' = Nil
    /\ cVal' = Nil
    /\ UNCHANGED <<tmp, pc, tmpVal, nextId, replaced, usedAfterDrop>>

\* c = U::new(value); step 1: the right-hand side is evaluated into a temporary
AssignEval ==
    /\ UNCHANGED <<layoutVars, expandVars, batchVars>>
    /\ pc = "idle"
    /\ c.st = "live"
    /\ nextId <= MaxValues
    /\ \E value \in Values : \E fat \in Unsize(value) :
          /\ tmp' = new(value, fat)
          /\ tmpVal' = Ghost(value, fat)
          /\ heap' = Alloc(value)
    /\ nextId' = nextId + 1
    /\ pc' = "assign_rhs"
    /\ replaced' = cVal.id
    /\ UNCHANGED <<c, X_DROP_COUNT, cVal, refCount, drops, misuse, usedAfterDrop>>

\* step 2: the old value of c is dropped in place
AssignDrop ==
    /\ UNCHANGED <<layoutVars, expandVars, batchVars>>
    /\ pc = "assign_rhs"
    /\ Destroy("c")
    /\ c' = Nil
    /\ cVal' = Nil
    /\ pc' = "assign_dropped"
    /\ UNCHANGED <<tmp, tmpVal, nextId, replaced, usedAfterDrop>>

\* step 3: the temporary is moved into c
AssignMove ==
    /\ UNCHANGED <<layoutVars, expandVars, batchVars>>
    /\ pc = "assign_dropped"
    /\ c' = tmp
    /\ cVal' = tmpVal
    /\ tmp' = Nil
    /\ tmpVal' = Nil
    /\ pc' = "idle"
    /\ UNCHANGED <<heap, X_DROP_COUNT, refCount, drops, nextId, replaced, misuse,
                   usedAfterDrop>>

Next == Let \/ CallLen \/ CallSetLen \/ DropC \/ AssignEval \/ AssignDrop \/ AssignMove

Spec == Init /\ [][Next]_vars

----------------------------------------------------------------------------
(* Properties of the generated container (specification Spec). *)

Locs == {"c", "tmp"}
Live(id) == \E loc \in Locs : Container(loc).st = "live" /\ Value(loc).id = id

\* C1: every constructed value has its destructor run exactly once, namely
\* when its container is destroyed: not at all while the container is live
\* (so never before an access), once after it was destroyed, and no value
\* is accessed after its destructor ran. The heap shows the same: the buffer
\* of a String is live while its container is, and freed afterwards.
C1_DestructorExactlyOnce ==
    /\ ~usedAfterDrop
    /\ \A id \in 1..MaxValues :
          /\ drops[id] = (IF id < nextId /\ ~Live(id) THEN 1 ELSE 0)
          /\ heap[id].st = "live" => Live(id)
          /\ heap[id].st = "freed" => drops[id] = 1

\* An X was constructed, set_len(U8Mod + 1) was called on it, and then it was
\* destroyed: its destructor ran once, on top of what set_len stored.
C1_Witness ==
    /\ pc = "idle"
    /\ c.st = "none"
    /\ X_DROP_COUNT = U8Mod + 2
    /\ \E id \in 1..MaxValues : drops[id] = 1

\* C2: in `c = U::new(v2)` the previous value of c is destroyed, exactly once
\* and with its resources released, before the new value becomes the value of
\* c; until then the new value lives in a temporary of its own, so c never
\* holds both, and the previous value is not leaked.
C2_ReplaceDropsOldFirst ==
    /\ pc = "assign_rhs" =>
          /\ c.st = "live" /\ tmp.st = "live"
          /\ cVal.id = replaced /\ tmpVal.id # replaced
          /\ drops[replaced] = 0 /\ drops[tmpVal.id] = 0
    /\ pc = "assign_dropped" =>
          /\ c.st = "none" /\ tmp.st = "live"
          /\ drops[replaced] = 1 /\ heap[replaced].st # "live"
          /\ drops[tmpVal.id] = 0
    /\ pc = "idle" =>
          /\ tmp.st = "none"
          /\ replaced # 0 =>
                /\ drops[replaced] = 1 /\ heap[replaced].st # "live"
                /\ c.st = "live" => cVal.id # replaced /\ drops[cVal.id] = 0

\* A String was replaced by an X: the String's buffer is freed, c holds the X.
C2_Witness ==
    /\ pc = "idle"
    /\ replaced # 0
    /\ heap[replaced].st = "freed"
    /\ c.st = "live"
    /\ cVal.ty = "X"

\* C3: a call through the reference that deref / deref_mut return gives what
\* the same call on the value itself gives: the same len(), the same value
\* after any sequence of set_len calls, the same X_DROP_COUNT.
C3_MethodEquivalence ==
    /\ X_DROP_COUNT = refCount
    /\ \A loc \in Locs : Container(loc).st = "live" =>
          LET t == deref(loc)
              ty == VtableType(t.vtable)
              data == Container(t.data).data
          IN /\ impl_len(ty, data, World) = Direct_len(Value(loc))
             /\ Decode(ty, data, World) = Value(loc).val

\* A String of two characters was truncated to one through deref_mut.
C3_Witness ==
    /\ c.st = "live"
    /\ cVal.ty = "String"
    /\ Len(cVal.val) = 1
    /\ Len(heap[cVal.id].buf) = 2
    /\ impl_len(VtableType(deref("c").vtable), c.data, World) = 1

\* C10: the handle of a live container is non-null, is the vtable that `new`
\* captured, and is a vtable of the type of the value in the storage; no call
\* was ever made through another vtable or on storage that holds no value.
C10_HandleMatchesStorage ==
    /\ ~misuse
    /\ \A loc \in Locs : Container(loc).st = "live" =>
          /\ Container(loc).vtable # 0
          /\ Container(loc).vtable = Value(loc).vt
          /\ VtableType(Container(loc).vtable) = Value(loc).ty

\* After a replacement c holds an X on which set_len(2) was called.
C10_Witness ==
    /\ pc = "idle"
    /\ replaced # 0
    /\ c.st = "live"
    /\ cVal.ty = "X"
    /\ X_DROP_COUNT = 2
    /\ VtableType(c.vtable) = "X"

----------------------------------------------------------------------------
(* The layout of the generated types (specification LayoutSpec).            *)
(*                                                                          *)
(*   struct U        { data: Union, vtable: VtableContainer }               *)
(*   #[repr(C)] union Union { variant0: ManuallyDrop<V0>, ... }             *)
(*   struct VtableContainer(NonNull<()>)                                    *)

MaxVariants == 3    \* variants of a request
MaxAlignLog == 4    \* variant alignments are 1, 2, .., 2^MaxAlignLog
MaxSizeUnits == 3   \* variant sizes are 0, .., MaxSizeUnits times the alignment

PtrSize == 8        \* size and alignment of NonNull<()> on a 64 bit target

Max(a, b) == IF a >= b THEN a ELSE b

align_up(n, a) == ((n + a - 1) \div a) * a

VariantLayouts ==
    {[size |-> k * 2^e, align |-> 2^e] : k \in 0..MaxSizeUnits, e \in 0..MaxAlignLog}

RECURSIVE MaxSize(_)
MaxSize(ls) == IF ls = <<>> THEN 0 ELSE Max(Head(ls).size, MaxSize(Tail(ls)))

RECURSIVE MaxAlign(_)
MaxAlign(ls) == IF ls = <<>> THEN 1 ELSE Max(Head(ls).align, MaxAlign(Tail(ls)))

RECURSIVE SumSize(_)
SumSize(ls) == IF ls = <<>> THEN 0 ELSE Head(ls).size + SumSize(Tail(ls))

\* ManuallyDrop<V> is repr(transparent): the layout of V.
union_fields_layout(ls) == ls

UnionLayout_Struct(fields) ==
    [size |-> align_up(SumSize(fields), MaxAlign(fields)), align |-> MaxAlign(fields)]

\* A repr(C) union: every field at offset 0.
UnionLayout(fields) ==
    [size |-> align_up(MaxSize(fields), MaxAlign(fields)), align |-> MaxAlign(fields)]

\* struct VtableContainer(NonNull<()>)
VtableContainerLayout == [size |-> PtrSize, align |-> PtrSize]

\* Two fields laid out in the given order.
InOrder(f, g) ==
    [size |-> align_up(align_up(f.size, g.align) + g.size, Max(f.align, g.align)),
     align |-> Max(f.align, g.align)]

\* A repr(Rust) struct of two fields: the compiler picks the smaller order.
StructLayout(f, g) ==
    IF InOrder(f, g).size <= InOrder(g, f).size THEN InOrder(f, g) ELSE InOrder(g, f)

ContainerLayout(ls) ==
    StructLayout(UnionLayout(union_fields_layout(ls)), VtableContainerLayout)

LayoutInit ==
    /\ lvariants = <<>>
    /\ layout = Nil
    /\ RtIdle /\ ExpandIdle /\ BatchIdle

\* One more variant in the declaration; the layout is that of the whole list.
AddVariant ==
    /\ Len(lvariants) < MaxVariants
    /\ \E l \in VariantLayouts :
          /\ lvariants' = Append(lvariants, l)
          /\ layout' = ContainerLayout(Append(lvariants, l))
    /\ UNCHANGED <<rtVars, expandVars, batchVars>>

LayoutNext == AddVariant

LayoutSpec == LayoutInit /\ [][LayoutNext]_vars

\* C4 as stated: the size is the largest variant size rounded up to the
\* storage alignment plus one pointer, and the alignment is the largest
\* variant alignment.
C4_Original ==
    lvariants # <<>> =>
        /\ layout.size = align_up(MaxSize(lvariants), MaxAlign(lvariants)) + PtrSize
        /\ layout.align = MaxAlign(lvariants)

\* C4, amended: the alignment is the larger of the largest variant alignment
\* and the alignment of the handle (a pointer); the size is the largest
\* variant size rounded up to the largest variant alignment, plus one pointer,
\* rounded up to the container's alignment. The layout is that of a container
\* with the single variant of the largest size and the largest alignment, so
\* it does not depend on the number of variants.
C4_SizeAndAlignment ==
    lvariants # <<>> =>
        /\ layout.align = Max(MaxAlign(lvariants), PtrSize)
        /\ layout.size =
              align_up(align_up(MaxSize(lvariants), MaxAlign(lvariants)) + PtrSize,
                       layout.align)
        /\ layout = ContainerLayout(<<[size |-> MaxSize(lvariants),
                                       align |-> MaxAlign(lvariants)]>>)

\* Three variants like u8 | String | X: sizes 1, 24, 0 and alignments 1, 8, 4.
C4_Witness ==
    /\ Len(lvariants) = 3
    /\ lvariants[1] = [size |-> 1, align |-> 1]
    /\ lvariants[2] = [size |-> 24, align |-> 8]
    /\ lvariants[3] = [size |-> 0, align |-> 4]
    /\ layout = [size |-> 32, align |-> 8]

----------------------------------------------------------------------------
(* handle_request on one request (specification ExpandSpec).                *)

MaxBounds == 2       \* bounds in the TRAIT_BOUNDS segment of a declaration
MaxExpVariants == 2  \* variants of a declaration

\* The bounds a declaration may name: the trait F, a second non-auto trait,
\* an auto trait, and two lifetimes.
Bounds == {"F", "Display", "Send", "'a", "'static"}
IsLifetime(b) == b \in {"'a", "'static"}
IsAutoTrait(b) == b = "Send"

\* The types of the crate that invokes the macro, and what each satisfies.
TypeNames == {"u8", "Cell", "RefStr", "bool"}
Satisfies(ty, b) ==
    CASE b = "F" -> ty \in {"u8", "Cell", "RefStr"}
      [] b = "Display" -> ty \in {"u8", "RefStr", "bool"}
      [] b = "Send" -> TRUE
      [] b = "'a" -> TRUE
      [] b = "'static" -> ty \in {"u8", "Cell", "bool"}
      [] OTHER -> FALSE
IsSync(ty) == ty \in {"u8", "RefStr", "bool"}

SeqsUpTo(S, n) == UNION {[1..k -> S] : k \in 1..n}
Range(f) == {f[i] : i \in DOMAIN f}

\* syn::punctuated::Punctuated: values each followed by a punctuation, and
\* an optional last value without one.
iter(p) == p.inner \o p.last
empty_or_trailing(p) == p.last = <<>>
push_punct(p) == [inner |-> p.inner \o p.last, last |-> <<>>]
push_value(p, v) == [inner |-> p.inner, last |-> <<v>>]

\* What the parser can produce for TRAIT_BOUNDS: at least one bound, with or
\* without a trailing `+`.
TraitInputs ==
    {[inner |-> SubSeq(q, 1, Len(q) - 1), last |-> <<q[Len(q)]>>] : q \in SeqsUpTo(Bounds, MaxBounds)}
    \cup {[inner |-> q, last |-> <<>>] : q \in SeqsUpTo(Bounds, MaxBounds)}

Requests ==
    {[trait_ |-> t, variants |-> v] : t \in TraitInputs, v \in SeqsUpTo(TypeNames, MaxExpVariants)}

has_lifetime_Never(t) == FALSE

has_lifetime(t) == \E i \in 1..Len(iter(t)) : IsLifetime(iter(t)[i])

\* The bound of the generated trait and of the deref target.
trait_bound(t) ==
    IF ~has_lifetime(t)
    THEN push_value(IF ~empty_or_trailing(t) THEN push_punct(t) ELSE t, "'static")
    ELSE t

\* union fields: variant{pos}: ManuallyDrop<variant>
union_fields(variants) ==
    [k \in 1..Len(variants) |-> [ident |-> k - 1, ty |-> variants[k]]]

variant_impls_SkipFirst(variants) == [i \in 1..(Len(variants) - 1) |-> variants[i + 1]]

\* unsafe impl ...Variant for variant { }, one per variant of the list
variant_impls(variants) == [i \in 1..Len(variants) |-> variants[i]]

handle_request(req) ==
    [trait_ |-> trait_bound(req.trait_),
     union_fields |-> union_fields(req.variants),
     variant_impls |-> variant_impls(req.variants)]

\* The errors of the type check of the emitted items.
\*  - `dyn #trait_` needs at least one trait, at most one non-auto trait and
\*    at most one lifetime;
\*  - `unsafe trait ...Variant: #trait_` makes every impl prove the bounds;
\*  - two impls for one type conflict.
TypeErrors(o) ==
    LET bs == iter(o.trait_)
        nonAuto == {i \in 1..Len(bs) : ~IsLifetime(bs[i]) /\ ~IsAutoTrait(bs[i])}
        lifetimes == {i \in 1..Len(bs) : IsLifetime(bs[i])}
        impls == o.variant_impls
    IN  (IF Cardinality(nonAuto) = 0 THEN {<<"no_trait">>} ELSE {})
        \cup (IF Cardinality(nonAuto) > 1 THEN {<<"two_traits">>} ELSE {})
        \cup (IF Cardinality(lifetimes) > 1 THEN {<<"two_lifetimes">>} ELSE {})
        \cup {<<"unsatisfied", impls[q[1]], bs[q[2]]>> :
                 q \in {r \in (1..Len(impls)) \X (1..Len(bs)) :
                           ~Satisfies(impls[r[1]], bs[r[2]])}}
        \cup {<<"conflicting", impls[i]>> :
                 i \in {k \in 1..Len(impls) : \E m \in 1..Len(impls) : m # k /\ impls[m] = impls[k]}}

\* unsafe impl Sync for VtableContainer { }
VtableContainerSync == TRUE

\* A union is Sync when every field is; ManuallyDrop<V> is when V is.
UnionSync(o) == \A i \in 1..Len(o.union_fields) : IsSync(o.union_fields[i].ty)

ContainerSync_HandleOnly(o) == VtableContainerSync

\* The struct has no Sync impl of its own: it is Sync when both fields are.
ContainerSync(o) == UnionSync(o) /\ VtableContainerSync

TypeCheck(o) ==
    [errors |-> TypeErrors(o),
     witnesses |-> Range(o.variant_impls),
     sync |-> ContainerSync(o)]

ExpandInit ==
    /\ request \in Requests
    /\ phase = "parsed"
    /\ out = Nil
    /\ built = Nil
    /\ manual = {}
    /\ constructed = "none"
    /\ RtIdle /\ LayoutIdle /\ BatchIdle

\* handle_request(request)
Expand ==
    /\ phase = "parsed"
    /\ out' = handle_request(request)
    /\ phase' = "emitted"
    /\ UNCHANGED <<request, built, manual, constructed, rtVars, layoutVars, batchVars>>

\* The compiler type checks the emitted items.
Compile ==
    /\ phase = "emitted"
    /\ built' = TypeCheck(out)
    /\ phase' = "checked"
    /\ UNCHANGED <<request, out, manual, constructed, rtVars, layoutVars, batchVars>>

BuildOk == phase = "checked" /\ built.errors = {}

\* The generated trait is `#vis unsafe trait`: code that can name it can write
\* `unsafe impl ...Variant for ty { }` for a type that satisfies the bound.
ManualImpl ==
    /\ BuildOk
    /\ \E ty \in TypeNames \ (built.witnesses \cup manual) :
          /\ \A i \in 1..Len(iter(out.trait_)) : Satisfies(ty, iter(out.trait_)[i])
          /\ manual' = manual \cup {ty}
    /\ UNCHANGED <<request, phase, out, built, constructed, rtVars, layoutVars, batchVars>>

\* U::new(value: impl ...Variant) with a value of type ty.
CallNew ==
    /\ BuildOk
    /\ \E ty \in built.witnesses \cup manual : constructed' = ty
    /\ UNCHANGED <<request, phase, out, built, manual, rtVars, layoutVars, batchVars>>

ExpandNext == Expand \/ Compile \/ ManualImpl \/ CallNew

ExpandSpec == ExpandInit /\ [][ExpandNext]_vars

\* C5: the handle is Sync unconditionally, and the container is Sync only if
\* every variant type is Sync.
C5_SyncOnlyIfVariantsSync ==
    phase = "checked" =>
        /\ VtableContainerSync
        /\ built.sync => \A i \in 1..Len(request.variants) : IsSync(request.variants[i])

\* A declaration with a variant that is not Sync built without errors, and
\* its container is not Sync.
C5_Witness ==
    /\ BuildOk
    /\ \E i \in 1..Len(request.variants) : ~IsSync(request.variants[i])
    /\ ~built.sync

\* C6 as stated: a type has a witness exactly if it is in the variant list.
C6_Original ==
    BuildOk => \A ty \in TypeNames :
        (ty \in built.witnesses \cup manual) <=> (ty \in Range(request.variants))

\* C6, amended: `new` takes a value only of a type with a witness; the macro
\* emits exactly one witness per declared variant and none for another type;
\* a witness for another type exists only where code outside the macro wrote
\* an `unsafe impl` of the generated trait, which the trait is open to.
C6_WitnessPerVariant ==
    BuildOk =>
        /\ built.witnesses = Range(request.variants)
        /\ Len(out.variant_impls) = Cardinality(Range(request.variants))
        /\ constructed # "none" => constructed \in built.witnesses \cup manual
        /\ (constructed # "none" /\ manual = {}) => constructed \in Range(request.variants)
        /\ \A ty \in TypeNames :
              (ty \in built.witnesses \cup manual /\ ty \notin Range(request.variants))
                 => ty \in manual

\* Two variants are declared, and a value of the second was passed to `new`.
C6_Witness ==
    /\ BuildOk
    /\ Len(request.variants) = 2
    /\ manual = {}
    /\ constructed = request.variants[2]

\* C9: a bound without a lifetime gets exactly one 'static appended, so that
\* a declaration builds only if every variant is 'static; a bound with a
\* lifetime is left as it is.
C9_StaticAddedIffNoLifetime ==
    phase # "parsed" =>
        LET in == iter(request.trait_)
            res9 == iter(out.trait_)
        IN IF \E i \in 1..Len(in) : IsLifetime(in[i])
           THEN out.trait_ = request.trait_
           ELSE /\ res9 = in \o <<"'static">>
                /\ Cardinality({i \in 1..Len(res9) : res9[i] = "'static"}) = 1
                /\ ~empty_or_trailing(out.trait_)
                /\ BuildOk => \A i \in 1..Len(request.variants) :
                                 Satisfies(request.variants[i], "'static")

\* `F +` (a trailing plus, no lifetime) became `F + 'static`.
C9_Witness ==
    /\ phase = "emitted"
    /\ request.trait_ = [inner |-> <<"F">>, last |-> <<>>]
    /\ out.trait_ = [inner |-> <<"F">>, last |-> <<"'static">>]

----------------------------------------------------------------------------
(* The proc macro trait_union on a batch (specification BatchSpec).         *)

MaxBatch == 2        \* declarations in one macro invocation

\* A declaration of the input either parses to a request or is malformed.
Malformed == [parses |-> FALSE, req |-> Nil]
Declarations ==
    {Malformed} \cup
    {[parses |-> TRUE, req |-> [trait_ |-> [inner |-> <<>>, last |-> <<"F">>], variants |-> v]] :
        v \in SeqsUpTo({"u8", "bool"}, MaxExpVariants)}

CompileError == [kind |-> "compile_error", items |-> Nil]
Items(req) == [kind |-> "items", items |-> handle_request(req)]

parse_next_SkipMalformed(parsed, decl) ==
    [ok |-> TRUE, res |-> IF decl.parses THEN Append(parsed, decl.req) ELSE parsed]

\* One turn of the loop of TraitUnionRequests::parse:
\* res.push(TraitUnionRequest::parse(input)?)
parse_next(parsed, decl) ==
    IF decl.parses
    THEN [ok |-> TRUE, res |-> Append(parsed, decl.req)]
    ELSE [ok |-> FALSE, res |-> <<>>]

extend_CheckFirst(toks, req) ==
    IF TypeErrors(handle_request(req)) = {}
    THEN Append(toks, Items(req))
    ELSE Append(toks, CompileError)

\* One turn of the loop of trait_union: tokens.extend(handle_request(request))
extend(toks, req) == Append(toks, Items(req))

BatchInit ==
    /\ batch \in SeqsUpTo(Declarations, MaxBatch)
    /\ res = <<>>
    /\ tokens = <<>>
    /\ pos = 0
    /\ bpc = "parsing"
    /\ checked = <<>>
    /\ RtIdle /\ LayoutIdle /\ ExpandIdle

\* parse: the input is not empty and the next declaration parses
ParseOk ==
    /\ bpc = "parsing"
    /\ pos < Len(batch)
    /\ parse_next(res, batch[pos + 1]).ok
    /\ res' = parse_next(res, batch[pos + 1]).res
    /\ pos' = pos + 1
    /\ UNCHANGED <<batch, tokens, bpc, checked, rtVars, layoutVars, expandVars>>

\* parse: the next declaration does not parse; parse_macro_input! makes
\* trait_union return the compile error alone
ParseErr ==
    /\ bpc = "parsing"
    /\ pos < Len(batch)
    /\ ~parse_next(res, batch[pos + 1]).ok
    /\ res' = parse_next(res, batch[pos + 1]).res
    /\ pos' = pos + 1
    /\ tokens' = <<CompileError>>
    /\ bpc' = "returned"
    /\ UNCHANGED <<batch, checked, rtVars, layoutVars, expandVars>>

\* parse: the input is empty
ParseEnd ==
    /\ bpc = "parsing"
    /\ pos = Len(batch)
    /\ bpc' = "handling"
    /\ UNCHANGED <<batch, res, tokens, pos, checked, rtVars, layoutVars, expandVars>>

\* trait_union: one turn of `for request in requests`
HandleOne ==
    /\ bpc = "handling"
    /\ Len(tokens) < Len(res)
    /\ tokens' = extend(tokens, res[Len(tokens) + 1])
    /\ UNCHANGED <<batch, res, pos, bpc, checked, rtVars, layoutVars, expandVars>>

\* trait_union: tokens.into()
Return ==
    /\ bpc = "handling"
    /\ Len(tokens) = Len(res)
    /\ bpc' = "returned"
    /\ UNCHANGED <<batch, res, tokens, pos, checked, rtVars, layoutVars, expandVars>>

\* The compiler type checks the tokens the macro returned.
CompileBatch ==
    /\ bpc = "returned"
    /\ checked' = [j \in 1..Len(tokens) |->
                     IF tokens[j].kind = "items"
                     THEN TypeCheck(tokens[j].items)
                     ELSE [errors |-> {<<"parse">>}, witnesses |-> {}, sync |-> FALSE]]
    /\ bpc' = "checked"
    /\ UNCHANGED <<batch, res, tokens, pos, rtVars, layoutVars, expandVars>>

BatchNext == ParseOk \/ ParseErr \/ ParseEnd \/ HandleOne \/ Return \/ CompileBatch

BatchSpec == BatchInit /\ [][BatchNext]_vars

Conforms(req) == \A i \in 1..Len(req.variants) : Satisfies(req.variants[i], "F")

\* C7 as stated: nothing is emitted for a declaration with a variant that
\* fails the conformance check.
C7_Original ==
    \A j \in 1..Len(tokens) : tokens[j].kind = "items" => Conforms(res[j])

\* C7, amended: the macro takes every declaration from Parsed to Emitted
\* without a conformance check of its own: nothing is emitted before all
\* declarations are parsed, and the items of every parsed declaration are
\* emitted, conforming or not. The check comes after emission, when the
\* compiler type checks the returned tokens: it reports every variant that
\* does not implement the trait, and the build succeeds for no declaration
\* with such a variant.
C7_EmitThenCheck ==
    /\ bpc = "parsing" => tokens = <<>>
    /\ bpc = "handling" =>
          /\ Len(tokens) <= Len(res)
          /\ \A j \in 1..Len(tokens) : tokens[j] = Items(res[j])
    /\ checked # <<>> => (bpc = "checked" /\ Len(checked) = Len(tokens))
    /\ bpc = "checked" =>
          \A j \in 1..Len(tokens) : tokens[j].kind = "items" =>
              /\ tokens[j] = Items(res[j])
              /\ \A i \in 1..Len(res[j].variants) :
                    ~Satisfies(res[j].variants[i], "F")
                       => <<"unsatisfied", res[j].variants[i], "F">> \in checked[j].errors
              /\ checked[j].errors = {} => Conforms(res[j])

\* A declaration with a variant that does not implement F was emitted, and
\* the type check that followed reported it.
C7_Witness ==
    /\ bpc = "checked"
    /\ Len(tokens) = 1
    /\ tokens[1].kind = "items"
    /\ ~Conforms(res[1])
    /\ <<"unsatisfied", "bool", "F">> \in checked[1].errors

\* C8 as stated: when the macro returns, every declaration that is itself
\* well-formed has been emitted, whatever happened to the others.
C8_Original ==
    bpc = "returned" =>
        \A i \in 1..Len(batch) : batch[i].parses =>
            \E j \in 1..Len(tokens) : tokens[j] = Items(batch[i].req)

\* C8, amended: a declaration whose variants fail the conformance check does
\* not block the others: if every declaration parses, each one is emitted,
\* with the items it would get alone. But if any declaration fails to parse,
\* the macro returns only the compile error and emits nothing for any
\* declaration of the batch.
C8_BatchEmission ==
    bpc \in {"returned", "checked"} =>
        IF \E i \in 1..Len(batch) : ~batch[i].parses
        THEN tokens = <<CompileError>>
        ELSE /\ Len(tokens) = Len(batch)
             /\ \A i \in 1..Len(batch) : tokens[i] = Items(batch[i].req)

\* Two declarations, the first with a variant that does not implement F:
\* both were emitted.
C8_Witness ==
    /\ bpc = "returned"
    /\ Len(batch) = 2
    /\ batch[1].parses /\ batch[2].parses
    /\ ~Conforms(batch[1].req)
    /\ Conforms(batch[2].req)
    /\ Len(tokens) = 2

====
